---- MODULE Spec2Model ----
(***************************************************************************)
(* Model of zeyple.py: Zeyple.process_message and the helpers it calls.    *)
(*                                                                         *)
(* Strings whose characters matter (mail addresses) are sequences of       *)
(* one-character strings.  Python objects that are shared by reference     *)
(* (the header list of an email.message.Message) live in a heap, `hlists`, *)
(* and a message holds the index of its header list.                       *)
(***************************************************************************)
EXTENDS Integers, Sequences, FiniteSets, TLC

\* ------------------------------------------------------------------ bounds

\* Longest recipient list handed to process_message.
MaxRecipients == 2

\* Depth of nested _user_key calls at which the interpreter gives up
\* (RecursionError); stands for sys.getrecursionlimit().
MaxDepth == 4

\* ------------------------------------------------------- addresses (strings)

Addr(local) == local \o <<"@", "x">>

uAt == Addr(<<"u">>)
uTagAt == Addr(<<"u", "+", "t">>)
nAt == Addr(<<"n">>)
eAt == Addr(<<"e">>)
aAt == Addr(<<"a">>)
aTagAt == Addr(<<"a", "+", "t">>)
bAt == Addr(<<"b">>)
bTagAt == Addr(<<"b", "+", "t">>)
unAt == Addr(<<"u", "n">>)
NAt == Addr(<<"N">>)
\* '+' directly before '@' is no tag; a '+' in the domain is one for the regex.
plusAt == <<"u", "+", "@", "x", "+", "y">>

\* str.lower() on the characters the model uses.
LowerChar(c) == CASE c = "N" -> "n" [] c = "U" -> "u" [] OTHER -> c

Lower(s) == [i \in 1..Len(s) |-> LowerChar(s[i])]

\* s[from..] starts with a maximal run of non-'@' characters; its length.
RECURSIVE RunLen(_, _)
RunLen(s, from) ==
    IF from > Len(s) \/ s[from] = "@" THEN 0 ELSE 1 + RunLen(s, from + 1)

\* re.sub('(\\+[^@]+)', '', email): every leftmost, greedy match of a '+'
\* followed by at least one non-'@' character is removed.
RECURSIVE StripFrom(_, _)
StripFrom(s, i) ==
    IF i > Len(s) THEN <<>>
    ELSE IF s[i] = "+" /\ RunLen(s, i + 1) >= 1
         THEN StripFrom(s, i + 1 + RunLen(s, i + 1))
         ELSE <<s[i]>> \o StripFrom(s, i + 1)

StripTag(s) == StripFrom(s, 1)

\* pat occurs in s at offset i
OccursAt(pat, s, i) ==
    /\ i + Len(pat) - 1 <= Len(s)
    /\ \A j \in 1..Len(pat) : s[i + j - 1] = pat[j]

Contains(s, pat) == \E i \in 1..(Len(s) + 1) : OccursAt(pat, s, i)

\* ------------------------------------------------- email.message.Message

\* A header value: the text before the first ';' and the parameters after it.
Val(s) == [v |-> s, params |-> <<>>]

ValP(s, ps) == [v |-> s, params |-> ps]

Hdr(name, value) == [name |-> name, value |-> value]

\* Message.__contains__
Has(hs, name) == \E i \in 1..Len(hs) : hs[i].name = name

FirstIdx(hs, name) ==
    CHOOSE i \in 1..Len(hs) :
        hs[i].name = name /\ \A j \in 1..(i - 1) : hs[j].name # name

\* Message.__getitem__ where the header is present (the first one wins).
Get(hs, name) == hs[FirstIdx(hs, name)].value

\* Message.__delitem__: a NEW list without the headers called name.
DelHeader(hs, name) == SelectSeq(hs, LAMBDA h : h.name # name)

\* Message.__setitem__ / add_header: append to the list in place.
AddHeader(hs, name, value) == Append(hs, Hdr(name, value))

\* Message.replace_header: overwrite the first header called name in place.
ReplaceHeader(hs, name, value) ==
    [hs EXCEPT ![FirstIdx(hs, name)] = Hdr(name, value)]

HasParam(val, p) == \E i \in 1..Len(val.params) : val.params[i][1] = p

WithParam(val, p, x) ==
    IF HasParam(val, p)
    THEN [val EXCEPT !.params =
            [i \in 1..Len(val.params) |->
                IF val.params[i][1] = p THEN <<p, x>> ELSE val.params[i]]]
    ELSE [val EXCEPT !.params = Append(val.params, <<p, x>>)]

\* Message.set_param(param, value) on Content-Type (replace=False): the
\* header is deleted and appended again when its value changes.
SetParam(hs, p, x) ==
    LET old == IF Has(hs, "Content-Type") THEN Get(hs, "Content-Type")
               ELSE Val("text/plain")
        new == WithParam(old, p, x)
    IN IF Has(hs, "Content-Type") /\ new = old THEN hs
       ELSE AddHeader(DelHeader(hs, "Content-Type"), "Content-Type", new)

\* Message.set_boundary: a NEW list, every Content-Type given the boundary.
SetBoundary(hs, b) ==
    [i \in 1..Len(hs) |->
        IF hs[i].name = "Content-Type"
        THEN Hdr(hs[i].name, WithParam(hs[i].value, "boundary", b))
        ELSE hs[i]]

\* Message.get_content_type(): the default is text/plain.
ContentType(hs) ==
    IF Has(hs, "Content-Type") THEN Get(hs, "Content-Type").v ELSE "text/plain"

\* Message.get_params() without its first item (the main/sub type).
SecondaryParams(hs) ==
    IF Has(hs, "Content-Type") THEN Get(hs, "Content-Type").params ELSE <<>>

\* ------------------------------------------------------------ byte strings

NoPlain == [wrap |-> "none", ctype |-> Val(""), cte |-> "", text |-> "",
            parts |-> <<>>]

NoCipher == [armor |-> FALSE, keys |-> <<>>, plain |-> NoPlain]

\* One MIME part of a multipart body.
Part(ctype, name, desc, disp, body, cipher) ==
    [ctype |-> ctype, name |-> name, desc |-> desc, disp |-> disp,
     body |-> body, cipher |-> cipher]

InPart == Part("text/plain", "", "", "", "hi", NoCipher)

\* Message._payload: a str, or a list of parts.
TextPayload(s) == [multi |-> FALSE, text |-> s, parts |-> <<>>]

PartsPayload(ps) == [multi |-> TRUE, text |-> "", parts |-> ps]

\* ---------------------------------------------------------------- inputs

None == "None"

Key(uids, subkeys, expired) ==
    [uids |-> uids, subkeys |-> subkeys, expired |-> expired]

KeyU == Key(<<uAt>>, <<"KU", "KUsub">>, FALSE)
\* Found by a search for n@x (substring, any case), yet no uid equals n@x.
KeyN == Key(<<unAt, NAt>>, <<"KN">>, FALSE)
KeyE == Key(<<eAt>>, <<"KE">>, TRUE)

\* The key directories (gpg home) a run may see.
Keyrings == { <<KeyU, KeyN, KeyE>>, <<KeyN, KeyU>> }

\* The [keyaliases] sections a run may see: option (lower case) -> value.
NoAlias == [a \in {} |-> <<>>]
AliasTables ==
    { NoAlias,
      [a \in {aAt} |-> uAt],
      [a \in {aAt} |-> aTagAt],
      [a \in {aAt, bAt} |-> IF a = aAt THEN bTagAt ELSE uTagAt] }

\* argv[1:]
Recipient == {uTagAt, nAt, eAt, aAt, plusAt}

RECURSIVE SeqsUpTo(_, _)
SeqsUpTo(S, n) ==
    IF n = 0 THEN {<<>>}
    ELSE LET shorter == SeqsUpTo(S, n - 1)
         IN shorter \cup {Append(q, x) : q \in {r \in shorter : Len(r) = n - 1}, x \in S}

\* has_option is false, or the option is there and getboolean gives its value.
Option == {"unset", "false", "true"}

\* What email.message_from_bytes makes of the message handed in.
Msg(hs, payload) == [headers |-> hs, payload |-> payload]

MsgSingle ==
    Msg(<<Hdr("From", Val("me@x")), Hdr("Message-id", Val("<1>")),
          Hdr("Content-Type", ValP("text/plain", << <<"charset", "utf-8">> >>)),
          Hdr("Content-Transfer-Encoding", Val("7bit"))>>,
        TextPayload("hello"))

MsgBare ==
    Msg(<<Hdr("From", Val("me@x")), Hdr("Message-id", Val("<1>"))>>,
        TextPayload("hello"))

MsgMulti ==
    Msg(<<Hdr("From", Val("me@x")), Hdr("Message-id", Val("<1>")),
          Hdr("Content-Type", ValP("multipart/mixed", << <<"boundary", "BB">> >>))>>,
        PartsPayload(<<InPart>>))

Messages == {MsgSingle, MsgBare, MsgMulti}

\* ----------------------------------------------------------------- state

VARIABLES
    force_encrypt,  \* config: [zeyple] force_encrypt
    add_header,     \* config: [zeyple] add_header
    keyaliases,     \* config: [keyaliases]
    keyring,        \* the keys of the gpg home directory
    message_data,   \* process_message argument
    recipients,     \* process_message argument
    pc,             \* where process_message stands
    idx,            \* position of the for loop in recipients
    email,          \* _user_key: its argument in the innermost call
    depth,          \* _user_key: number of nested calls
    key_id,         \* process_message local
    key_ids,        \* what _user_key returned, one entry per recipient so far
    hlists,         \* heap: the header lists (Message._headers objects)
    in_message,     \* process_message local
    out_message,    \* process_message local
    sent_messages,  \* process_message local
    result,         \* what process_message returned
    error,          \* the exception that left process_message
    transport,      \* what smtp.sendmail accepted, in order
    calls,          \* the calls made on the gpg context, in order
    log             \* the logging calls, in order

config == <<force_encrypt, add_header, keyaliases, keyring, message_data, recipients>>

vars == <<force_encrypt, add_header, keyaliases, keyring, message_data, recipients,
          pc, idx, email, depth, key_id, key_ids, hlists, in_message, out_message,
          sent_messages, result, error, transport, calls, log>>

\* A Message object: its header list (a heap index), payload and preamble.
Message(h, payload, preamble) ==
    [h |-> h, payload |-> payload, preamble |-> preamble]

NoMessage == Message(0, TextPayload(""), "")

LogEntry(level, text, arg) == [level |-> level, text |-> text, arg |-> arg]

\* One call on the gpg context; rcpt is the loop position it was made at.
Call(op, arg, query, rewritten, keys, plain) ==
    [op |-> op, rcpt |-> idx, arg |-> arg, query |-> query,
     rewritten |-> rewritten, keys |-> keys, plain |-> plain]

\* Message['Message-id'] as logged
MessageId(hs) ==
    IF Has(hs, "Message-id") THEN <<Get(hs, "Message-id").v>> ELSE <<None>>

Init ==
    /\ force_encrypt \in Option
    /\ add_header \in Option
    /\ keyaliases \in AliasTables
    /\ keyring \in Keyrings
    /\ message_data \in Messages
    /\ recipients \in SeqsUpTo(Recipient, MaxRecipients)
    /\ pc = "start"
    /\ idx = 1
    /\ email = <<>>
    /\ depth = 0
    /\ key_id = None
    /\ key_ids = <<>>
    /\ hlists = <<>>
    /\ in_message = NoMessage
    /\ out_message = NoMessage
    /\ sent_messages = <<>>
    /\ result = <<>>
    /\ error = "none"
    /\ transport = <<>>
    /\ calls = <<>>
    /\ log = <<>>

\* ------------------------------------------------------- process_message

Logged(entries) == log' = log \o entries

Raise(e) == /\ error' = e
            /\ pc' = "raised"

\* Lines 79-88: parse the message, log it, warn when there is no recipient.
Start ==
    /\ pc = "start"
    /\ hlists' = <<message_data.headers>>
    /\ in_message' = Message(1, message_data.payload, "")
    /\ Logged(<<LogEntry("info", "Processing outgoing message",
                         MessageId(message_data.headers))>>
              \o IF recipients = <<>>
                 THEN <<LogEntry("warn", "Cannot find any recipients, ignoring", <<>>)>>
                 ELSE <<>>)
    /\ sent_messages' = <<>>
    /\ pc' = "loop"
    /\ UNCHANGED <<config, idx, email, depth, key_id, key_ids, out_message, result,
                   error, transport, calls>>

\* Lines 89-92: the next recipient of the list; _user_key is called with it.
NextRecipient ==
    /\ pc = "loop"
    /\ idx <= Len(recipients)
    /\ Logged(<<LogEntry("info", "Recipient", recipients[idx])>>)
    /\ email' = recipients[idx]
    /\ depth' = 1
    /\ pc' = "user_key"
    /\ UNCHANGED <<config, idx, key_id, key_ids, hlists, in_message, out_message,
                   sent_messages, result, error, transport, calls>>

\* Line 111: the list is exhausted.
Return ==
    /\ pc = "loop"
    /\ idx > Len(recipients)
    /\ result' = sent_messages
    /\ pc' = "returned"
    /\ UNCHANGED <<config, idx, email, depth, key_id, key_ids, hlists, in_message,
                   out_message, sent_messages, error, transport, calls, log>>

\* ------------------------------------------------------------- _user_key

\* config.has_option('keyaliases', email): option names are lower-cased.
HasAlias(e) == Lower(e) \in DOMAIN keyaliases

\* Lines 240-241
Aliased(e) == IF HasAlias(e) THEN keyaliases[Lower(e)] ELSE e

\* gpg.keylist(pattern): the keys with a user id that contains the pattern,
\* whatever the case; broader than the address asked for.
KeyList(pattern) ==
    SelectSeq(keyring,
              LAMBDA k : \E i \in 1..Len(k.uids) :
                            Contains(Lower(k.uids[i]), Lower(pattern)))

\* Faulty variant: any key the search returned is taken.
UidMatchesAny(k, e) == TRUE

\* Line 248: some uid of the key has exactly this email.
UidMatches(k, e) == \E i \in 1..Len(k.uids) : k.uids[i] = e

\* Lines 246-249: the first key of the search with a matching uid, or 0.
FirstMatch(keys, e) ==
    IF \E i \in 1..Len(keys) : UidMatches(keys[i], e)
    THEN CHOOSE i \in 1..Len(keys) :
            UidMatches(keys[i], e) /\ \A j \in 1..(i - 1) : ~UidMatches(keys[j], e)
    ELSE 0

\* Lines 234-256: one call of _user_key, down to its return or to the
\* nested call it makes with the tag stripped.
UserKey ==
    /\ pc = "user_key"
    /\ LET query == Aliased(email)
           keys == KeyList(query)
           m == FirstMatch(keys, query)
           submail == StripTag(query)
       IN /\ Logged(<<LogEntry("info", "Trying to encrypt for", email)>>)
          /\ calls' = Append(calls, Call("keylist", email, query, HasAlias(email), <<>>, NoPlain))
          /\ IF m # 0
             THEN /\ key_id' = keys[m].subkeys[1]
                  /\ key_ids' = Append(key_ids, keys[m].subkeys[1])
                  /\ pc' = "policy"
                  /\ UNCHANGED <<email, depth, error>>
             ELSE IF submail # query
             THEN IF depth < MaxDepth
                  THEN /\ email' = submail
                       /\ depth' = depth + 1
                       /\ UNCHANGED <<pc, key_id, key_ids, error>>
                  ELSE /\ Raise("RecursionError")
                       /\ UNCHANGED <<email, depth, key_id, key_ids>>
             ELSE /\ key_id' = None
                  /\ key_ids' = Append(key_ids, None)
                  /\ pc' = "policy"
                  /\ UNCHANGED <<email, depth, error>>
    /\ UNCHANGED <<config, idx, hlists, in_message, out_message, sent_messages,
                   result, transport>>

\* Line 246: the gpg context cannot be built or the search fails.
UserKeyEngineError ==
    /\ pc = "user_key"
    /\ Logged(<<LogEntry("info", "Trying to encrypt for", email)>>)
    /\ Raise("EngineError")
    /\ UNCHANGED <<config, idx, email, depth, key_id, key_ids, hlists, in_message,
                   out_message, sent_messages, result, transport, calls>>

\* ------------------------------------------------------ policy (93-105)

\* copy.copy(message): a new Message whose attributes are the SAME objects,
\* the header list among them.
ShallowCopy(m) == Message(m.h, m.payload, m.preamble)

\* Faulty variant: the force_encrypt branch is never taken.
ForceEncryptIgnored == FALSE

\* Lines 98-99
ForceEncrypt == force_encrypt = "true"

\* Lines 93-105: the branch on the key id.
Policy ==
    /\ pc = "policy"
    /\ IF key_id # None
       THEN /\ Logged(<<LogEntry("info", "Key ID", <<key_id>>)>>)
            /\ pc' = "encrypt"
            /\ UNCHANGED <<idx, out_message>>
       ELSE IF ForceEncrypt
       THEN /\ Logged(<<LogEntry("info", "Key ID", <<key_id>>),
                        LogEntry("error", "No keys found, message will not be sent!", <<>>)>>)
            /\ idx' = idx + 1
            /\ pc' = "loop"
            /\ UNCHANGED out_message
       ELSE /\ Logged(<<LogEntry("info", "Key ID", <<key_id>>),
                        LogEntry("warn", "No keys found, message will be sent unencrypted", <<>>)>>)
            /\ out_message' = ShallowCopy(in_message)
            /\ pc' = "annotate"
            /\ UNCHANGED idx
    /\ UNCHANGED <<config, email, depth, key_id, key_ids, hlists, in_message,
                   sent_messages, result, error, transport, calls>>

\* ------------------------------------------------------ _encrypt_message

Preamble == "This is an OpenPGP/MIME encrypted message (RFC 4880 and 3156)"

\* Lines 113-124
VersionPart ==
    Part("application/pgp-encrypted", "", "PGP/MIME version identification", "",
         "Version: 1\n", NoCipher)

\* Lines 126-140
EncryptedPart(cipher) ==
    Part("application/octet-stream", "encrypted.asc", "OpenPGP encrypted message",
         "inline; filename=encrypted.asc", "", cipher)

\* Generator._handle_multipart: a list payload whose Content-Type has no
\* boundary is given one by set_boundary while the message is serialised.
NeedsBoundary(hs, payload) ==
    /\ payload.multi
    /\ Has(hs, "Content-Type")
    /\ ~HasParam(Get(hs, "Content-Type"), "boundary")

\* The header list of a message after as_string() ran on it.
Serialised(hs, payload) ==
    IF NeedsBoundary(hs, payload) THEN SetBoundary(hs, "generated") ELSE hs

\* Lines 143-187: the bytes to encrypt, from the message as it is now.
\* hs is the header list after in_message.as_string() (multipart only).
Flatten(hs, payload) ==
    IF payload.multi
    THEN [wrap |-> "raw", ctype |-> Get(hs, "Content-Type"), cte |-> "",
          text |-> "", parts |-> payload.parts]
    ELSE [wrap |-> "mixed",
          ctype |-> ValP(ContentType(hs), SecondaryParams(hs)),
          cte |-> IF Has(hs, "Content-Transfer-Encoding")
                  THEN Get(hs, "Content-Transfer-Encoding").v ELSE "",
          text |-> payload.text, parts |-> <<>>]

\* gpg.get_key(key_id): the key that owns the (sub)key id.
GetKey(kid) ==
    LET i == CHOOSE i \in 1..Len(keyring) :
                /\ \E j \in 1..Len(keyring[i].subkeys) : keyring[i].subkeys[j] = kid
                /\ \A l \in 1..(i - 1) :
                      \A j \in 1..Len(keyring[l].subkeys) : keyring[l].subkeys[j] # kid
    IN keyring[i]

\* Faulty variant: the expiry of the key is not looked at.
ExpiredIgnored(key) == FALSE

\* Line 220
Expired(key) == key.expired

\* gpg.encrypt(Data(payload), recipients=keys, always_trust=True), armored.
Encrypt(plain, keys) ==
    [armor |-> TRUE, keys |-> [i \in 1..Len(keys) |-> keys[i].subkeys[1]],
     plain |-> plain]

\* Lines 198-204, on the list the copy shares with in_message.
WithEncryptedType(hs) ==
    IF ~Has(hs, "Content-Type")
    THEN AddHeader(hs, "Content-Type", Val("multipart/encrypted"))
    ELSE ReplaceHeader(hs, "Content-Type", Val("multipart/encrypted"))

\* Lines 205-206, which leave out_message with a list of its own.
OwnHeaders(hs) ==
    SetParam(DelHeader(hs, "Content-Transfer-Encoding"),
             "protocol", "application/pgp-encrypted")

\* Lines 142-209 with _encrypt_payload (211-232) for a key that is usable.
EncryptMessage ==
    /\ pc = "encrypt"
    /\ LET before == hlists[in_message.h]
           rebound == NeedsBoundary(before, in_message.payload)
           heap1 == IF rebound
                    THEN Append(hlists, SetBoundary(before, "generated"))
                    ELSE hlists
           inh == IF rebound THEN Len(heap1) ELSE in_message.h
           plain == Flatten(heap1[inh], in_message.payload)
           key == GetKey(key_id)
       IN IF Expired(key)
          THEN /\ Raise("KeyExpired")
               /\ hlists' = heap1
               /\ in_message' = [in_message EXCEPT !.h = inh]
               /\ UNCHANGED <<out_message, calls>>
          ELSE LET cipher == Encrypt(plain, <<key>>)
                   shared == WithEncryptedType(heap1[inh])
                   heap2 == Append([heap1 EXCEPT ![inh] = shared], OwnHeaders(shared))
               IN /\ calls' = Append(calls, Call("encrypt", <<>>, <<>>, FALSE, cipher.keys, plain))
                  /\ hlists' = heap2
                  /\ in_message' = [in_message EXCEPT !.h = inh]
                  /\ out_message' =
                        Message(Len(heap2),
                                PartsPayload(<<VersionPart, EncryptedPart(cipher)>>),
                                Preamble)
                  /\ pc' = "annotate"
                  /\ UNCHANGED error
    /\ UNCHANGED <<config, idx, email, depth, key_id, key_ids, sent_messages, result,
                   transport, log>>

\* Lines 217 and 225: the engine fails in get_key, or in encrypt once the
\* key was found usable.
EncryptEngineError ==
    /\ pc = "encrypt"
    /\ \E stage \in {"get_key", "encrypt"} :
          LET before == hlists[in_message.h]
              rebound == NeedsBoundary(before, in_message.payload)
              heap1 == IF rebound
                       THEN Append(hlists, SetBoundary(before, "generated"))
                       ELSE hlists
              inh == IF rebound THEN Len(heap1) ELSE in_message.h
              plain == Flatten(heap1[inh], in_message.payload)
          IN /\ stage = "encrypt" => ~Expired(GetKey(key_id))
             /\ calls' = IF stage = "encrypt"
                         THEN Append(calls, Call("encrypt", <<>>, <<>>, FALSE,
                                                 <<GetKey(key_id).subkeys[1]>>, plain))
                         ELSE calls
             /\ hlists' = heap1
             /\ in_message' = [in_message EXCEPT !.h = inh]
    /\ Raise("EngineError")
    /\ UNCHANGED <<config, idx, email, depth, key_id, key_ids, out_message, sent_messages,
                   result, transport, log>>

\* ----------------------------------------------------- _add_zeyple_header

ZeypleHeader == Val("processed by Zeyple v2.0.0")

\* Lines 259-260
AddHeaderOn == add_header = "true"

\* Lines 258-264: add_header appends to the message's list in place.
Annotate ==
    /\ pc = "annotate"
    /\ hlists' = IF AddHeaderOn
                 THEN [hlists EXCEPT ![out_message.h] =
                          AddHeader(@, "X-Zeyple", ZeypleHeader)]
                 ELSE hlists
    /\ pc' = "send"
    /\ UNCHANGED <<config, idx, email, depth, key_id, key_ids, in_message, out_message,
                   sent_messages, result, error, transport, calls, log>>

\* ---------------------------------------------------------- _send_message

\* Faulty variant: every message goes to the first recipient of the list.
DeliveryToFirst(to, hs, m) ==
    [to |-> recipients[1], at |-> idx, msg |-> m,
     from |-> IF Has(hs, "From") THEN Get(hs, "From").v ELSE None,
     headers |-> hs, preamble |-> m.preamble, payload |-> m.payload]

\* What sendmail is given: the recipient, the sender and message.as_string()
\* (headers, preamble, payload); at is the loop position and msg the Message
\* object that _send_message was called with.
Delivery(to, hs, m) ==
    [to |-> to, at |-> idx, msg |-> m,
     from |-> IF Has(hs, "From") THEN Get(hs, "From").v ELSE None,
     headers |-> hs, preamble |-> m.preamble, payload |-> m.payload]

\* Lines 266-276 and 109: the relay takes the message.
SendMessage ==
    /\ pc = "send"
    /\ LET before == hlists[out_message.h]
           rebound == NeedsBoundary(before, out_message.payload)
           heap1 == IF rebound
                    THEN Append(hlists, Serialised(before, out_message.payload))
                    ELSE hlists
           sent == IF rebound THEN [out_message EXCEPT !.h = Len(heap1)]
                   ELSE out_message
       IN /\ hlists' = heap1
          /\ out_message' = sent
          /\ transport' = Append(transport,
                                 Delivery(recipients[idx], heap1[sent.h], sent))
          /\ Logged(<<LogEntry("info", "Sending message", MessageId(before)),
                      LogEntry("info", "Message sent", MessageId(heap1[sent.h]))>>)
          /\ sent_messages' = Append(sent_messages, sent)
    /\ idx' = idx + 1
    /\ pc' = "loop"
    /\ UNCHANGED <<config, email, depth, key_id, key_ids, in_message, result, error, calls>>

\* Lines 270-274: the relay cannot be reached, refuses the message, or
\* fails in quit() after it took the message.
SendTransportError ==
    /\ pc = "send"
    /\ \E stage \in {"connect", "sendmail", "quit"} :
          LET before == hlists[out_message.h]
              rebound == stage # "connect"
                         /\ NeedsBoundary(before, out_message.payload)
              heap1 == IF rebound
                       THEN Append(hlists, Serialised(before, out_message.payload))
                       ELSE hlists
              sent == IF rebound THEN [out_message EXCEPT !.h = Len(heap1)]
                      ELSE out_message
          IN /\ hlists' = heap1
             /\ out_message' = sent
             /\ transport' = IF stage = "quit"
                             THEN Append(transport,
                                         Delivery(recipients[idx], heap1[sent.h], sent))
                             ELSE transport
    /\ Logged(<<LogEntry("info", "Sending message", MessageId(hlists[out_message.h]))>>)
    /\ Raise("TransportError")
    /\ UNCHANGED <<config, idx, email, depth, key_id, key_ids, in_message, sent_messages,
                   result, calls>>

\* ------------------------------------------------------------ specification

Next ==
    \/ Start
    \/ NextRecipient
    \/ Return
    \/ UserKey
    \/ UserKeyEngineError
    \/ Policy
    \/ EncryptMessage
    \/ EncryptEngineError
    \/ Annotate
    \/ SendMessage
    \/ SendTransportError

Spec == Init /\ [][Next]_vars

\* ============================================================ properties

Returned == pc = "returned"

Raised == pc = "raised"

\* _user_key has returned for recipient i.
Resolved(i) == i <= Len(key_ids)

KeyIdOf(i) == key_ids[i]

\* Recipient i was resolved to no key under force_encrypt=true.
Dropped(i) == Resolved(i) /\ KeyIdOf(i) = None /\ force_encrypt = "true"

DeliveriesAt(i) == {k \in 1..Len(transport) : transport[k].at = i}

KeylistCalls(i) == SelectSeq(calls, LAMBDA c : c.op = "keylist" /\ c.rcpt = i)

EncryptCalls(i) == SelectSeq(calls, LAMBDA c : c.op = "encrypt" /\ c.rcpt = i)

\* Number of headers called name.
RECURSIVE Count(_, _)
Count(hs, name) ==
    IF hs = <<>> THEN 0
    ELSE (IF Head(hs).name = name THEN 1 ELSE 0) + Count(Tail(hs), name)

\* A '+' followed by at least one character that is not '@'.
HasTag(q) == \E p \in 1..(Len(q) - 1) : q[p] = "+" /\ q[p + 1] # "@"

\* Some key record the search for q returns has a uid with exactly email q.
ExactHit(q) ==
    LET found == KeyList(q)
    IN \E n \in 1..Len(found) :
          \E j \in 1..Len(found[n].uids) : found[n].uids[j] = q

\* The delivered message is an OpenPGP/MIME envelope (not the input's body).
IsEnvelope(d) ==
    /\ ContentType(d.headers) = "multipart/encrypted"
    /\ d.payload.multi
    /\ Len(d.payload.parts) = 2
    /\ d.payload.parts[1] = VersionPart
    /\ d.payload.parts[2].cipher.armor
    /\ d.payload # message_data.payload

\* C1: with force_encrypt=true a recipient whose key resolution gave none is
\* never handed to the transport and has no message in the result, and every
\* message handed to the transport is an encrypted envelope.
C1_ForceEncryptNeverLeaks ==
    force_encrypt = "true" =>
        /\ \A i \in 1..Len(recipients) :
              (Resolved(i) /\ KeyIdOf(i) = None) => DeliveriesAt(i) = {}
        /\ \A k \in 1..Len(transport) :
              /\ Resolved(transport[k].at)
              /\ KeyIdOf(transport[k].at) # None
              /\ IsEnvelope(transport[k])
        /\ Returned =>
              /\ Len(result) =
                    Cardinality({i \in 1..Len(recipients) : KeyIdOf(i) # None})
              /\ \A k \in 1..Len(result) : result[k].payload # message_data.payload

\* A run under force_encrypt=true that dropped one recipient and delivered
\* to another.
C1_Witness ==
    /\ force_encrypt = "true"
    /\ Returned
    /\ \E i \in 1..Len(recipients) : KeyIdOf(i) = None
    /\ Len(transport) >= 1

\* C2: handling one recipient leaves the parsed input's headers and body as
\* they were parsed, no outgoing message shares its header list with the
\* input or with another outgoing message, and a message that was delivered
\* still has the headers it was delivered with.
C2_RecipientsIndependent ==
    pc # "start" =>
        /\ hlists[in_message.h] = message_data.headers
        /\ in_message.payload = message_data.payload
        /\ \A k \in 1..Len(sent_messages) :
              /\ sent_messages[k].h # in_message.h
              /\ hlists[sent_messages[k].h] = transport[k].headers
              /\ \A l \in 1..Len(sent_messages) :
                    k # l => sent_messages[k].h # sent_messages[l].h
        /\ pc \in {"annotate", "send"} => out_message.h # in_message.h

\* C3: each delivered message has exactly one X-Zeyple header more than the
\* input when add_header is true, and as many as the input otherwise.
C3_OneZeypleHeader ==
    \A k \in 1..Len(transport) :
        Count(transport[k].headers, "X-Zeyple") =
            Count(message_data.headers, "X-Zeyple")
            + (IF add_header = "true" THEN 1 ELSE 0)

\* C4: recipients are handled in list order, the delivery of one is over
\* before the key of the next is looked up, only listed addresses are
\* delivered to, and the value returned is the sequence of the messages handed
\* to the transport, one per recipient occurrence that was not dropped; an
\* empty list returns an empty result without any delivery or error.
C4_InOrderOnePerRecipient ==
    /\ \A k \in 1..Len(transport) :
          /\ transport[k].at \in 1..Len(recipients)
          /\ transport[k].to = recipients[transport[k].at]
          /\ \A l \in 1..(k - 1) : transport[l].at < transport[k].at
    /\ \A n \in 1..Len(calls) :
          /\ calls[n].rcpt <= idx
          /\ \A j \in 1..(calls[n].rcpt - 1) :
                Resolved(j) /\ (Dropped(j) \/ DeliveriesAt(j) # {})
          /\ \A m \in 1..(n - 1) : calls[m].rcpt <= calls[n].rcpt
    /\ pc \in {"user_key", "policy", "encrypt", "annotate", "send"} =>
          \A k \in 1..Len(transport) : transport[k].at < idx
    /\ Returned =>
          /\ Len(result) = Len(transport)
          /\ \A k \in 1..Len(result) : result[k] = transport[k].msg
          /\ \A i \in 1..Len(recipients) :
                /\ Len(KeylistCalls(i)) >= 1
                /\ Cardinality(DeliveriesAt(i)) = IF Dropped(i) THEN 0 ELSE 1
                /\ KeyIdOf(i) # None => Len(EncryptCalls(i)) = 1
    /\ recipients = <<>> =>
          /\ ~Raised
          /\ transport = <<>>
          /\ Returned => result = <<>>

\* A run that returned after delivering twice to the same address.
C4_Witness ==
    /\ Returned
    /\ Len(recipients) = 2
    /\ recipients[1] = recipients[2]
    /\ Len(result) = 2
    /\ Len(EncryptCalls(2)) = 1

\* C5: an error while recipient idx is handled ends the call: nothing more
\* runs and nothing is returned, no later recipient is delivered, recipient
\* idx itself only when the transport failed after taking the message, and
\* each earlier recipient that was not dropped was delivered exactly once;
\* a key that is expired is never passed to the engine's encrypt.
C5_FatalErrorAborts ==
    /\ \A n \in 1..Len(calls) :
          calls[n].op = "encrypt" =>
              \A j \in 1..Len(calls[n].keys) : ~GetKey(calls[n].keys[j]).expired
    /\ error # "none" <=> Raised
    /\ Raised =>
          /\ ~ENABLED Next
          /\ result = <<>>
          /\ error = "KeyExpired" => EncryptCalls(idx) = <<>>
          /\ \A k \in 1..Len(transport) : transport[k].at <= idx
          /\ DeliveriesAt(idx) # {} => error = "TransportError"
          /\ Len(sent_messages) = Cardinality({j \in 1..(idx - 1) : ~Dropped(j)})
          /\ \A j \in 1..(idx - 1) :
                Cardinality(DeliveriesAt(j)) = IF Dropped(j) THEN 0 ELSE 1

\* The second recipient's key is expired and the first was delivered.
C5_Witness ==
    /\ Raised
    /\ error = "KeyExpired"
    /\ idx = 2
    /\ Len(transport) = 1

\* C6: a key id is returned only for a key record of the search that has a
\* uid exactly equal to the address queried (after the alias substitution),
\* and it is the first subkey id of that record; without an exact match an
\* address with a tag is retried with the tag stripped, and any other
\* address gives none.  n@x is not resolved by the keys of un@x and N@x, and
\* u+t@x is resolved to the key of u@x when no alias interferes.
C6_ExactMatchOrStrippedRetry ==
    \A i \in 1..Len(recipients) :
        LET kl == KeylistCalls(i)
        IN /\ \A n \in 1..Len(kl) :
                 /\ kl[n].query = Aliased(kl[n].arg)
                 /\ n = 1 => kl[n].arg = recipients[i]
                 /\ n > 1 => /\ ~ExactHit(kl[n - 1].query)
                             /\ HasTag(kl[n - 1].query)
                             /\ kl[n].arg = StripTag(kl[n - 1].query)
                             /\ ~HasTag(kl[n].arg)
           /\ Resolved(i) =>
                 LET q == kl[Len(kl)].query
                     found == KeyList(q)
                 IN /\ KeyIdOf(i) # None =>
                          \E n \in 1..Len(found) :
                              /\ \E j \in 1..Len(found[n].uids) : found[n].uids[j] = q
                              /\ KeyIdOf(i) = found[n].subkeys[1]
                    /\ KeyIdOf(i) = None => ~ExactHit(q) /\ ~HasTag(q)
                    /\ (recipients[i] = nAt /\ ~HasAlias(nAt)) => KeyIdOf(i) = None
                    /\ (recipients[i] = uTagAt /\ keyaliases = NoAlias
                        /\ \E n \in 1..Len(keyring) : keyring[n] = KeyU)
                          => /\ KeyIdOf(i) = "KU"
                             /\ Len(kl) = 2
                             /\ kl[2].query = uAt

\* u+t@x was resolved to the key of u@x on the retry, and n@x to none
\* although the search for it returned a key.
C6_Witness ==
    /\ Len(recipients) = 2
    /\ recipients[1] = uTagAt
    /\ recipients[2] = nAt
    /\ keyaliases = NoAlias
    /\ Resolved(2)
    /\ KeyIdOf(1) = "KU"
    /\ Len(KeylistCalls(1)) = 2
    /\ KeyIdOf(2) = None
    /\ Len(KeyList(nAt)) >= 1

\* C7: the message delivered to a recipient with a usable key is
\* multipart/encrypted with protocol=application/pgp-encrypted, has no
\* Content-Transfer-Encoding, has the OpenPGP/MIME preamble, and its body is
\* the version part followed by the encrypted part whose content is the
\* flattened input encrypted to that recipient's key alone.
C7_EnvelopeOfFlattenedInput ==
    \A k \in 1..Len(transport) :
        KeyIdOf(transport[k].at) # None =>
            LET d == transport[k]
            IN /\ ContentType(d.headers) = "multipart/encrypted"
               /\ HasParam(Get(d.headers, "Content-Type"), "protocol")
               /\ \E n \in 1..Len(Get(d.headers, "Content-Type").params) :
                     Get(d.headers, "Content-Type").params[n] =
                        <<"protocol", "application/pgp-encrypted">>
               /\ ~Has(d.headers, "Content-Transfer-Encoding")
               /\ d.preamble = Preamble
               /\ d.payload =
                     PartsPayload(<<VersionPart,
                         EncryptedPart(
                            Encrypt(Flatten(message_data.headers, message_data.payload),
                                    <<GetKey(KeyIdOf(d.at))>>))>>)

\* C8: when process_message ends with an error, the log holds an error entry
\* that names the failure and the message identifier.
C8_FatalErrorLogged ==
    Raised =>
        \E n \in 1..Len(log) :
            /\ log[n].level = "error"
            /\ log[n].text = error
            /\ log[n].arg = MessageId(message_data.headers)

\* C9: the resolution of one recipient queries the key directory at most
\* twice and never runs into the recursion limit.
C9_AtMostTwoAttempts ==
    /\ error # "RecursionError"
    /\ \A i \in 1..Len(recipients) : Len(KeylistCalls(i)) <= 2

\* C10: during the resolution of one recipient the address is replaced
\* through the alias table at most once.
C10_AliasedAtMostOnce ==
    \A i \in 1..Len(recipients) :
        Len(SelectSeq(KeylistCalls(i), LAMBDA c : c.rewritten)) <= 1

====
